---- MODULE Spec2Model ----
(***************************************************************************)
(* Threat authorization and adaptive learning coordinator of the drone     *)
(* swarm: the shared SwarmState (swarm_state.py), the Queen decision loop  *)
(* (queen.py), the operator's web handlers (datacenter.py), the mission    *)
(* reset (main.py), the Kamikaze effector loop (kamikaze.py) and the       *)
(* AdaptiveThreatLearner (adaptive_learner.py).                            *)
(*                                                                         *)
(* Threads are interleaved at the granularity of their accesses to the     *)
(* shared SwarmState attributes: a block under `with self.lock` is one     *)
(* step, an unlocked attribute read or write is one step.  Confidences     *)
(* are fixed point: detection confidences in 1/100, scores in 1/10000.     *)
(* Not modelled: AirSim motion, the camera/YOLO pipeline (a detection is   *)
(* an input), the scan counters, learning_stats and the patrol settings.   *)
(* mission_logs holds the lines of the authorization protocol (the         *)
(* request, its resolution by the operator, the timeout or the mode, the   *)
(* autonomous authorization, the mission reset); the informational lines   *)
(* (threat seen, start-up, strike progress) are not recorded.              *)
(***************************************************************************)
EXTENDS Integers, Sequences, FiniteSets, TLC

\* ------------------------------------------------------------------ bounds
\* timeout of request_permission in poll ticks (15 s at 0.2 s per poll)
TimeoutTicks == 2
\* inputs per run: operator actions (approve, deny, spawn, mode switch, mission
\* reset) and detections the perception pipeline yields
MaxInputs == 3
\* the same in a run with mission resets
MaxResetInputs == 2
\* the same in a run checked for termination
MaxLiveInputs == 2
\* calls made on the learner in a run of the learner alone
MaxLearnerCalls == 2
\* inputs of the mission late in a long run
MaxLongInputs == 2
\* inputs of a mission the operator answers and resets
MaxAbortInputs == 3
\* add_threat calls in a run of the registry alone
MaxSubmitCalls == 4

\* ------------------------------------------------------- program constants
LogCap == 2000
AUTONOMOUS_THRESHOLD == 8000
BufferCap == 1000
MinExperiences == 5
SaveEvery == 5
HistoryKept == 100
YoloMinConf == 50
BasicMinConf == 70
NoPatternWeight == 40

\* Python's None for a string-valued slot; the empty containers below stand
\* for None in the record- and tuple-valued slots
None == "None"
NoThreat == [class |-> "None", confidence |-> 0, world_pos |-> <<0, 0>>]
NoTarget == <<>>

\* Queen threads: the one main() starts and the one a mission reset starts
\* while the first is still running (stop_event is never read by queen.run).
Queens == {"Q1", "Q2"}
FirstQueen == "Q1"
\* likewise the Kamikaze1 threads
Kamikazes == {"K1", "K2"}
FirstKamikaze == "K1"
\* the Warrior thread main() starts
Warriors == {"W1"}
FirstWarrior == "W1"

\* ------------------------------------------------------------- detections
Detection(c, k, p) == [class |-> c, confidence |-> k, world_pos |-> p]
D1 == Detection("person", 60, <<10, 10>>)
D2 == Detection("car", 80, <<20, 20>>)
Detections == {D1, D2}

VARIABLES
  \* SwarmState
  threats, active_threat, queen_mode, kamikaze_deployed, kamikaze_target,
  mission_logs, threat_level, pending_permission, user_response,
  \* Queen threads: position, locals of run / handle_threat / request_permission
  pc, t, ht_mode, auto_dec, pred, approved, rp_result, rp_via, elapsed,
  \* AdaptiveThreatLearner of each Queen and the model file on disk
  learner, model_file, env,
  \* the last call made on the learner by a caller other than a Queen
  lcall,
  \* operator handler in progress, mission reset, Kamikaze1
  op_pc, op_val, main_pc, kpc, ktarget,
  \* position of the Warrior thread
  wpc,
  \* inputs left in this run
  budget,
  \* history of the current request_permission call of each Queen
  posted, respDuring, enteredPending, polls, heard

swarmVars == <<threats, active_threat, queen_mode, kamikaze_deployed,
               kamikaze_target, mission_logs, threat_level,
               pending_permission, user_response>>
queenVars == <<pc, t, ht_mode, auto_dec, pred, approved, rp_result, rp_via,
               elapsed>>
learnerVars == <<learner, model_file, env, lcall>>
otherVars == <<op_pc, op_val, main_pc, kpc, ktarget, wpc>>
inputVars == <<budget>>
histVars == <<posted, respDuring, enteredPending, polls, heard>>
vars == <<swarmVars, queenVars, learnerVars, otherVars, inputVars, histVars>>

\* ------------------------------------------------------------ SwarmState
Entry(source, message, level) ==
  [source |-> source, message |-> message, level |-> level]

\* a log that only grows
log_entry_keeps_all(logs, e) == Append(logs, e)

\* SwarmState.log: append under the lock, drop the oldest above the cap
\* (a message is the tuple of the parts its f-string is built from)
log_entry(logs, e) ==
  LET appended == Append(logs, e)
  IN  IF Len(appended) > LogCap THEN Tail(appended) ELSE appended
log(logs, source, message, level) == log_entry(logs, Entry(source, message, level))

TimeoutEntry == Entry("SYSTEM", <<"TIMEOUT - AUTO-AUTH">>, "WARNING")
JammerEntry == Entry("SYSTEM", <<"JAMMER MODE - AUTO-AUTH">>, "WARNING")
AuthorizedEntry == Entry("USER", <<"AUTHORIZED">>, "CRITICAL")
DeniedEntry == Entry("USER", <<"DENIED">>, "WARNING")

\* user_response holds None, True or False
Responses == {"True", "False"}
Truthy(v) == v = "True"

\* the first detection staying active
add_threat_active_first(current, d) == IF current = NoThreat THEN d ELSE current

\* the lower confidence staying active
add_threat_active_lowest(current, d) ==
  IF current # NoThreat /\ current.confidence < d.confidence THEN current ELSE d

\* SwarmState.add_threat: the locked block, then the THREAT line of the log
add_threat_level(level) == "RED"
add_threat_active(current, d) == d
ThreatEntry(d) == Entry("QUEEN", <<"THREAT", d.class, d.world_pos>>, "CRITICAL")
\* the THREAT line reads threat_data['class'] and threat_data['world_pos']:
\* a detection without one of the keys raises KeyError there, after the
\* locked block and before anything is logged
add_threat_raises(d) == ~({"class", "world_pos"} \subseteq DOMAIN d)
add_threat(d) ==
  /\ threats' = Append(threats, d)
  /\ active_threat' = add_threat_active(active_threat, d)
  /\ threat_level' = add_threat_level(threat_level)
  /\ mission_logs' = (IF add_threat_raises(d) THEN mission_logs
                      ELSE log_entry(mission_logs, ThreatEntry(d)))

\* ------------------------------------------------- AdaptiveThreatLearner
Pattern(n, m, cs, w) == [name |-> n, min_conf |-> m, classes |-> cs, priority |-> w]
\* the table with its large_vehicle pattern first
threat_patterns_large_first ==
  << Pattern("large_vehicle", 65, {"truck", "bus"}, 90),
     Pattern("high_confidence_vehicle", 75, {"car", "truck", "bus"}, 80),
     Pattern("person_detected", 70, {"person"}, 85) >>

threat_patterns ==
  << Pattern("high_confidence_vehicle", 75, {"car", "truck", "bus"}, 80),
     Pattern("person_detected", 70, {"person"}, 85),
     Pattern("large_vehicle", 65, {"truck", "bus"}, 90) >>

Assessment(b, c) == [is_threat |-> b, confidence |-> c]

\* _rule_based_assessment: the first pattern, in table order, that holds the
\* class and whose min_conf the confidence reaches
RECURSIVE rule_scan(_, _)
rule_scan(d, i) ==
  IF i > Len(threat_patterns) THEN Assessment(FALSE, d.confidence * NoPatternWeight)
  ELSE IF d.class \in threat_patterns[i].classes
          /\ d.confidence >= threat_patterns[i].min_conf
       THEN Assessment(TRUE, d.confidence * threat_patterns[i].priority)
       ELSE rule_scan(d, i + 1)
\* the last matching pattern deciding instead of the first
rule_based_assessment_last(d) ==
  LET matching == {i \in 1..Len(threat_patterns) :
                     /\ d.class \in threat_patterns[i].classes
                     /\ d.confidence >= threat_patterns[i].min_conf}
  IN  IF matching = {} THEN Assessment(FALSE, d.confidence * NoPatternWeight)
      ELSE LET i == CHOOSE m \in matching : \A n \in matching : n <= m
           IN  Assessment(TRUE, d.confidence * threat_patterns[i].priority)

rule_based_assessment(d) == rule_scan(d, 1)

\* what GaussianNB.predict / predict_proba can answer: the predicted label
\* and the probability of that label, or an exception
MLConfidences == {5000, 8000, 8001}
MLOutcomes ==
  [fails : {FALSE}, is_threat : BOOLEAN, confidence : MLConfidences]
    \cup {[fails |-> TRUE, is_threat |-> FALSE, confidence |-> 5000]}
NoML == [fails |-> TRUE, is_threat |-> FALSE, confidence |-> 5000]

\* the model asked only above MinExperiences experiences
uses_model_above(L) ==
  /\ L.is_trained /\ Len(L.experience_buffer) > MinExperiences
  /\ L.classifier_ok

\* the two guards of predict_threat_level before the backend is asked
uses_model(L) ==
  /\ L.is_trained /\ Len(L.experience_buffer) >= MinExperiences
  /\ L.classifier_ok

\* the backend's exception not caught: whatever it left is returned
predict_threat_level_unguarded(L, d, ml) ==
  IF ~uses_model(L) THEN rule_based_assessment(d)
  ELSE Assessment(ml.is_threat, ml.confidence)

\* predict_threat_level with the backend's answer ml for this call
predict_threat_level(L, d, ml) ==
  IF ~uses_model(L) THEN rule_based_assessment(d)
  ELSE IF ml.fails THEN rule_based_assessment(d)
  ELSE Assessment(ml.is_threat, ml.confidence)

\* the threshold compared with >= instead of >
autonomous_decision_inclusive(p) ==
  p.is_threat /\ p.confidence >= AUTONOMOUS_THRESHOLD

\* confidence > AUTONOMOUS_THRESHOLD on the prediction p of predict_threat_level
autonomous_decision(p) == p.is_threat /\ p.confidence > AUTONOMOUS_THRESHOLD

\* an entry of the experience buffer; time.time() is a counter here: the
\* stamp of an entry is one more than the newest stamp in the buffer
Experience(d, label, stamp) ==
  [label |-> label, timestamp |-> stamp, class |-> d.class,
   confidence |-> d.confidence]
time_time(buf) == IF buf = <<>> THEN 1 ELSE buf[Len(buf)].timestamp + 1
HistoryRecord(d, label) == [label |-> label, class |-> d.class]

\* a full buffer giving up its newest entry for the new one
deque_append_evicts_newest(buf, e) ==
  IF Len(buf) >= BufferCap THEN Append(SubSeq(buf, 1, Len(buf) - 1), e)
  ELSE Append(buf, e)

\* deque(maxlen=1000).append
deque_append(buf, e) ==
  IF Len(buf) >= BufferCap THEN Append(Tail(buf), e) ELSE Append(buf, e)

LastN(s, n) == IF Len(s) <= n THEN s ELSE SubSeq(s, Len(s) - n + 1, Len(s))

\* the state __init__ sets before load_model; ok is whether Queen.__init__
\* got a learner at all, classifier_ok whether GaussianNB could be imported,
\* class_count the number of examples the GaussianNB object was fitted on
FreshLearner(ok, classifier_ok) ==
  [ok |-> ok, classifier_ok |-> classifier_ok, class_count |-> 0,
   is_trained |-> FALSE, experience_buffer |-> <<>>, training_history |-> <<>>]

\* the model file: absent; unreadable (open or pickle.load raises, or the
\* object is no dictionary); the dictionary save_model pickled ("model");
\* or a dictionary whose 'experience' entry deque() cannot iterate
\* ("malformed")
NoFile == [kind |-> "absent", classifier_ok |-> FALSE, class_count |-> 0,
           experience |-> <<>>, is_trained |-> FALSE, training_history |-> <<>>]
CorruptFile == [NoFile EXCEPT !.kind = "corrupt"]
\* the dictionary without its last experience
model_data_short(L) ==
  [kind |-> "model", classifier_ok |-> L.classifier_ok,
   class_count |-> L.class_count,
   experience |-> SubSeq(L.experience_buffer, 1, Len(L.experience_buffer) - 1),
   is_trained |-> L.is_trained,
   training_history |-> LastN(L.training_history, HistoryKept)]

\* save_model: the dictionary it pickles
model_data(L) ==
  [kind |-> "model", classifier_ok |-> L.classifier_ok,
   class_count |-> L.class_count,
   experience |-> L.experience_buffer, is_trained |-> L.is_trained,
   training_history |-> LastN(L.training_history, HistoryKept)]

\* save_model: the file after the call; open(path, 'wb') truncates it, so a
\* failure leaves the old file (open failed) or an unreadable one (dump failed)
save_outcomes(L, file) == {model_data(L), file, CorruptFile}

\* load_model: nothing is assigned when the file is absent or unreadable;
\* the assignments are made one after the other inside the try, so the
\* deque() of a malformed file raises after self.classifier was replaced
load_model(L, file) ==
  IF file.kind \in {"absent", "corrupt"} THEN L
  ELSE LET with_classifier == [L EXCEPT !.classifier_ok = file.classifier_ok,
                                        !.class_count = file.class_count]
       IN  IF file.kind = "malformed" THEN with_classifier
           ELSE [with_classifier EXCEPT
                   !.experience_buffer = LastN(file.experience, BufferCap),
                   !.is_trained = file.is_trained,
                   !.training_history = file.training_history]

\* reset_model leaving the trained flag as it is
reset_model_keeps_flag(L, sklearn_ok) ==
  [L EXCEPT !.classifier_ok = sklearn_ok, !.class_count = 0,
            !.experience_buffer = <<>>, !.training_history = <<>>]

\* reset_model: a new GaussianNB (None without scikit-learn), the flag, the
\* buffer and the history cleared; self.threat_patterns is not written
reset_model(L, sklearn_ok) ==
  [L EXCEPT !.classifier_ok = sklearn_ok, !.class_count = 0,
            !.is_trained = FALSE,
            !.experience_buffer = <<>>, !.training_history = <<>>]

\* learn_from_feedback up to the save: fit_ok is whether partial_fit returned
\* every example labelled a threat
learn_label_always_threat(confirmed) == 1

learn_label(confirmed) == IF confirmed THEN 1 ELSE 0
\* learn_from_feedback without its test of the classifier: the example is
\* buffered and the update then fails on the missing classifier
learn_from_feedback_unguarded(L, d, confirmed, fit_ok) ==
  LET buffered == [L EXCEPT !.experience_buffer =
                     deque_append(L.experience_buffer,
                       Experience(d, learn_label(confirmed),
                                  time_time(L.experience_buffer)))]
  IN  IF ~fit_ok \/ ~L.classifier_ok THEN buffered
      ELSE [buffered EXCEPT !.is_trained = TRUE,
              !.class_count = L.class_count + 1,
              !.training_history =
                 Append(L.training_history, HistoryRecord(d, learn_label(confirmed)))]

learn_from_feedback(L, d, confirmed, fit_ok) ==
  IF ~L.classifier_ok THEN L
  ELSE LET label == learn_label(confirmed)
           buffered == [L EXCEPT !.experience_buffer =
                          deque_append(L.experience_buffer,
                            Experience(d, label, time_time(L.experience_buffer)))]
       IN  IF ~fit_ok THEN buffered
           ELSE [buffered EXCEPT !.is_trained = TRUE,
                   !.class_count = L.class_count + 1,
                   !.training_history = Append(L.training_history, HistoryRecord(d, label))]

\* whether that learn_from_feedback call reaches save_model
learn_saves(L, fit_ok) ==
  /\ L.classifier_ok /\ fit_ok
  /\ (Len(deque_append(L.experience_buffer, 0))) % SaveEvery = 0

\* a call of a public method of the learner: the method, its arguments, what
\* the environment did to it (fit_ok, ml), the stamp it gave the experience,
\* what the last save_model of this run left in the file, whether a
\* prediction of this instance has failed before, and whether the call
\* reached save_model
NoSave == [written |-> FALSE, is_trained |-> FALSE, n |-> 0]
NoCall == [op |-> "none", d |-> NoThreat, confirmed |-> FALSE, fit_ok |-> TRUE,
           ml |-> NoML, stamp |-> 0, saved |-> NoSave, failed |-> FALSE,
           failed_before |-> FALSE, save_called |-> FALSE]

\* ------------------------------------------------------------ Queen.run
goto(q, label) == pc' = [pc EXCEPT ![q] = label]

\* the statements of request_permission, and those at which the request
\* is pending: from the write of the pending flag to the end of the wait
InRequest(q) ==
  pc[q] \in {"rp_mode", "rp_target", "rp_tlog", "rp_setpend", "rp_clear",
             "rp_poll", "rp_sleep", "rp_read", "rp_unpend", "rp_unresp",
             "rp_reslog", "rp_tolog", "rp_tounpend"}
Waiting(q) == pc[q] \in {"rp_clear", "rp_poll", "rp_sleep"}

\* what the current call has done to the response slot and seen written to
\* it: the value its clearing write wiped, and the latest value written
\* between that write and its read of the slot
NothingHeard == [wiped |-> None, fresh |-> None]
Listening(q) == pc[q] \in {"rp_poll", "rp_sleep", "rp_read"}

\* Queen.__init__: the learner is built (or not, when its constructor
\* raises, which the environment decides) and loads the model file
QueenInit(q) ==
  /\ pc[q] = "q_construct"
  /\ learner' = [learner EXCEPT ![q] =
       IF env.learner_ok
       THEN load_model(FreshLearner(TRUE, env.sklearn_ok), model_file)
       ELSE FreshLearner(FALSE, FALSE)]
  /\ goto(q, "q_startup")
  /\ UNCHANGED <<swarmVars, model_file, env, lcall, otherVars, inputVars, histVars>>
  /\ UNCHANGED <<t, ht_mode, auto_dec, pred, approved, rp_result, rp_via, elapsed>>

\* run(): take-off, then "MONITORING" and the unlocked threat_level write
QueenMonitoring(q) ==
  /\ pc[q] = "q_startup"
  /\ threat_level' = "YELLOW"
  /\ goto(q, "q_loop")
  /\ UNCHANGED <<threats, active_threat, queen_mode, kamikaze_deployed,
                 kamikaze_target, mission_logs, pending_permission, user_response>>
  /\ UNCHANGED <<t, ht_mode, auto_dec, pred, approved, rp_result, rp_via, elapsed>>
  /\ UNCHANGED <<learnerVars, otherVars, inputVars, histVars>>

\* while not swarm.kamikaze_deployed
QueenLoop(q) ==
  /\ pc[q] = "q_loop"
  /\ goto(q, IF kamikaze_deployed THEN "q_complete" ELSE "q_check")
  /\ UNCHANGED <<swarmVars, learnerVars, otherVars, inputVars, histVars>>
  /\ UNCHANGED <<t, ht_mode, auto_dec, pred, approved, rp_result, rp_via, elapsed>>

\* if swarm.active_threat and not swarm.kamikaze_deployed
QueenCheck(q) ==
  /\ pc[q] = "q_check"
  /\ goto(q, IF active_threat # NoThreat /\ ~kamikaze_deployed
             THEN "q_take" ELSE "q_detect")
  /\ UNCHANGED <<swarmVars, learnerVars, otherVars, inputVars, histVars>>
  /\ UNCHANGED <<t, ht_mode, auto_dec, pred, approved, rp_result, rp_via, elapsed>>

\* t = swarm.active_threat; the next line reads t['class'], which raises when
\* the slot was emptied since the check and ends the thread
QueenTake(q) ==
  /\ pc[q] = "q_take"
  /\ t' = [t EXCEPT ![q] = active_threat]
  /\ goto(q, IF active_threat = NoThreat THEN "q_dead" ELSE "ht_mode")
  /\ UNCHANGED swarmVars
  /\ UNCHANGED <<ht_mode, auto_dec, pred, approved, rp_result, rp_via, elapsed>>
  /\ UNCHANGED <<learnerVars, otherVars, inputVars, histVars>>

\* detect_threats_from_warrior on a detection of a threat class: YOLO
\* confidence above 0.5, then the learner's assessment, or without a learner
\* confidence above 0.7
detect_accepts(L, d, ml) ==
  /\ d.confidence > YoloMinConf
  /\ IF L.ok THEN predict_threat_level(L, d, ml).is_threat
     ELSE d.confidence > BasicMinConf

\* the perception branch of the loop: nothing seen, or a detection that is
\* accepted, added to the registry and handled
QueenDetectNothing(q) ==
  /\ pc[q] = "q_detect"
  /\ goto(q, "q_loop")
  /\ UNCHANGED <<swarmVars, learnerVars, otherVars, inputVars, histVars>>
  /\ UNCHANGED <<t, ht_mode, auto_dec, pred, approved, rp_result, rp_via, elapsed>>

QueenDetect(q) ==
  /\ pc[q] = "q_detect"
  /\ budget > 0
  /\ \E d \in Detections :
       /\ \E ml \in (IF uses_model(learner[q]) THEN MLOutcomes ELSE {NoML}) :
            detect_accepts(learner[q], d, ml)
       /\ add_threat(d)
       /\ t' = [t EXCEPT ![q] = d]
  /\ budget' = budget - 1
  /\ goto(q, "ht_mode")
  /\ UNCHANGED <<queen_mode, kamikaze_deployed, kamikaze_target,
                 pending_permission, user_response>>
  /\ UNCHANGED <<ht_mode, auto_dec, pred, approved, rp_result, rp_via, elapsed>>
  /\ UNCHANGED <<learnerVars, otherVars, histVars>>

\* ------------------------------------------------------ Queen.handle_threat
\* save_model() on the shared model file; it fails only in a run with faults
SaveStep(L) == IF env.faults THEN save_outcomes(L, model_file) ELSE {model_data(L)}

\* learn_from_feedback(threat, confirmed) on the Queen's learner, with the
\* save_model call it makes on every SaveEvery-th example
Learn(q, d, confirmed, fit_ok) ==
  LET after == learn_from_feedback(learner[q], d, confirmed, fit_ok)
  IN  /\ learner' = [learner EXCEPT ![q] = after]
      /\ model_file' \in (IF learn_saves(learner[q], fit_ok)
                          THEN SaveStep(after)
                          ELSE {model_file})
LearnStep(q, confirmed) ==
  \E fit_ok \in (IF env.faults THEN BOOLEAN ELSE {TRUE}) :
    Learn(q, t[q], confirmed, fit_ok)

\* if swarm.queen_mode == "jammer": ... else: approved = request_permission()
HandleThreatMode(q) ==
  /\ pc[q] = "ht_mode"
  /\ ht_mode' = [ht_mode EXCEPT ![q] = queen_mode]
  /\ auto_dec' = [auto_dec EXCEPT ![q] = "none"]
  /\ IF queen_mode = "jammer"
     THEN IF learner[q].ok
          THEN goto(q, "ht_auto") /\ UNCHANGED mission_logs
          ELSE /\ goto(q, "q_target")
               /\ mission_logs' = log(mission_logs, "QUEEN",
                    <<"AUTO-AUTHORIZED (Jammer Mode - No AI)">>, "CRITICAL")
     ELSE goto(q, "rp_mode") /\ UNCHANGED mission_logs
  /\ posted' = [posted EXCEPT ![q] = <<>>]
  /\ respDuring' = [respDuring EXCEPT ![q] = 0]
  /\ enteredPending' = [enteredPending EXCEPT ![q] = FALSE]
  /\ polls' = [polls EXCEPT ![q] = 0]
  /\ heard' = [heard EXCEPT ![q] = NothingHeard]
  /\ rp_via' = [rp_via EXCEPT ![q] = "none"]
  /\ UNCHANGED <<threats, active_threat, queen_mode, kamikaze_deployed,
                 kamikaze_target, threat_level, pending_permission, user_response>>
  /\ UNCHANGED <<t, pred, approved, rp_result, elapsed>>
  /\ UNCHANGED <<learnerVars, otherVars, inputVars>>

\* jammer mode with a learner: autonomous_decision, then on authorization
\* the log line and learn_from_feedback(threat, True)
HandleThreatAuto(q) ==
  /\ pc[q] = "ht_auto"
  /\ \E ml \in (IF uses_model(learner[q]) THEN MLOutcomes ELSE {NoML}) :
       LET p == predict_threat_level(learner[q], t[q], ml)
       IN  /\ pred' = [pred EXCEPT ![q] = p]
           /\ IF autonomous_decision(p)
              THEN /\ auto_dec' = [auto_dec EXCEPT ![q] = "True"]
                   /\ mission_logs' = log(mission_logs, "QUEEN",
                        <<"AUTO-AUTHORIZED (AI Learning)">>, "CRITICAL")
                   /\ LearnStep(q, TRUE)
                   /\ goto(q, "q_target")
              ELSE /\ auto_dec' = [auto_dec EXCEPT ![q] = "False"]
                   /\ goto(q, "ht_clear")
                   /\ UNCHANGED <<mission_logs, learner, model_file>>
  /\ UNCHANGED <<threats, active_threat, queen_mode, kamikaze_deployed,
                 kamikaze_target, threat_level, pending_permission, user_response>>
  /\ UNCHANGED <<t, ht_mode, approved, rp_result, rp_via, elapsed>>
  /\ UNCHANGED <<env, lcall, otherVars, inputVars, histVars>>

\* normal mode, request_permission has returned: learn from the decision
HandleThreatLearn(q) ==
  /\ pc[q] = "ht_learn"
  /\ IF learner[q].ok THEN LearnStep(q, rp_result[q])
     ELSE UNCHANGED <<learner, model_file>>
  /\ goto(q, IF rp_result[q] THEN "q_target" ELSE "ht_clear")
  /\ UNCHANGED <<swarmVars, env, lcall, otherVars, inputVars, histVars>>
  /\ UNCHANGED <<t, ht_mode, auto_dec, pred, approved, rp_result, rp_via, elapsed>>

\* not authorized: with swarm.lock: threats.clear(); active_threat = None
HandleThreatClear(q) ==
  /\ pc[q] = "ht_clear"
  /\ threats' = <<>>
  /\ active_threat' = NoThreat
  /\ goto(q, "ht_yellow")
  /\ UNCHANGED <<queen_mode, kamikaze_deployed, kamikaze_target, mission_logs,
                 threat_level, pending_permission, user_response>>
  /\ UNCHANGED <<t, ht_mode, auto_dec, pred, approved, rp_result, rp_via, elapsed>>
  /\ UNCHANGED <<learnerVars, otherVars, inputVars, histVars>>

\* the locals of one pass of the loop, of handle_threat and of
\* request_permission go out of scope
EndPass(q) ==
  /\ t' = [t EXCEPT ![q] = NoThreat]
  /\ ht_mode' = [ht_mode EXCEPT ![q] = "normal"]
  /\ auto_dec' = [auto_dec EXCEPT ![q] = "none"]
  /\ pred' = [pred EXCEPT ![q] = Assessment(FALSE, 0)]
  /\ approved' = [approved EXCEPT ![q] = None]
  /\ rp_result' = [rp_result EXCEPT ![q] = FALSE]
  /\ rp_via' = [rp_via EXCEPT ![q] = "none"]
  /\ elapsed' = [elapsed EXCEPT ![q] = 0]
  /\ posted' = [posted EXCEPT ![q] = <<>>]
  /\ respDuring' = [respDuring EXCEPT ![q] = 0]
  /\ enteredPending' = [enteredPending EXCEPT ![q] = FALSE]
  /\ polls' = [polls EXCEPT ![q] = 0]
  /\ heard' = [heard EXCEPT ![q] = NothingHeard]

\* swarm.threat_level = "YELLOW" (outside the lock); return False
HandleThreatYellow(q) ==
  /\ pc[q] = "ht_yellow"
  /\ threat_level' = "YELLOW"
  /\ goto(q, "q_loop")
  /\ EndPass(q)
  /\ UNCHANGED <<threats, active_threat, queen_mode, kamikaze_deployed,
                 kamikaze_target, mission_logs, pending_permission, user_response>>
  /\ UNCHANGED <<learnerVars, otherVars, inputVars>>

\* handle_threat returned True: swarm.kamikaze_target = t['world_pos']
QueenTarget(q) ==
  /\ pc[q] = "q_target"
  /\ kamikaze_target' = t[q].world_pos
  /\ goto(q, "q_deploy")
  /\ UNCHANGED <<threats, active_threat, queen_mode, kamikaze_deployed,
                 mission_logs, threat_level, pending_permission, user_response>>
  /\ UNCHANGED <<t, ht_mode, auto_dec, pred, approved, rp_result, rp_via, elapsed>>
  /\ UNCHANGED <<learnerVars, otherVars, inputVars, histVars>>

\* swarm.kamikaze_deployed = True; break
QueenDeploy(q) ==
  /\ pc[q] = "q_deploy"
  /\ kamikaze_deployed' = TRUE
  /\ goto(q, "q_complete")
  /\ EndPass(q)
  /\ UNCHANGED <<threats, active_threat, queen_mode, kamikaze_target,
                 mission_logs, threat_level, pending_permission, user_response>>
  /\ UNCHANGED <<learnerVars, otherVars, inputVars>>

\* after the loop: with a learner, save_model()
QueenComplete(q) ==
  /\ pc[q] = "q_complete"
  /\ model_file' \in (IF learner[q].ok THEN SaveStep(learner[q]) ELSE {model_file})
  /\ goto(q, "q_done")
  /\ UNCHANGED <<swarmVars, learner, env, lcall, otherVars, inputVars, histVars>>
  /\ UNCHANGED <<t, ht_mode, auto_dec, pred, approved, rp_result, rp_via, elapsed>>

\* ------------------------------------------- SwarmState.request_permission
\* every statement of request_permission runs without the lock; only the
\* log calls take it
rpFrame == /\ UNCHANGED <<threats, active_threat, queen_mode, kamikaze_deployed,
                          kamikaze_target, threat_level>>
           /\ UNCHANGED <<t, ht_mode, auto_dec, pred>>
           /\ UNCHANGED <<learnerVars, otherVars, inputVars, posted, respDuring>>

\* request_permission without its jammer branch
RequestModeAlwaysAsks(q) ==
  /\ pc[q] = "rp_mode"
  /\ mission_logs' = log(mission_logs, "QUEEN",
                         <<"REQUESTING AUTHORIZATION">>, "WARNING")
  /\ goto(q, "rp_target")
  /\ rpFrame
  /\ UNCHANGED <<pending_permission, user_response, approved, rp_result, rp_via,
                 elapsed, enteredPending, polls,
                 heard>>

\* if self.queen_mode == "jammer": log; return True.  Otherwise the
\* "REQUESTING AUTHORIZATION" line
RequestMode(q) ==
  /\ pc[q] = "rp_mode"
  /\ IF queen_mode = "jammer"
     THEN /\ mission_logs' = log_entry(mission_logs, JammerEntry)
          /\ rp_result' = [rp_result EXCEPT ![q] = TRUE]
          /\ rp_via' = [rp_via EXCEPT ![q] = "jammer"]
          /\ goto(q, "ht_learn")
     ELSE /\ mission_logs' = log(mission_logs, "QUEEN",
                                 <<"REQUESTING AUTHORIZATION">>, "WARNING")
          /\ goto(q, "rp_target")
          /\ UNCHANGED <<rp_result, rp_via>>
  /\ rpFrame
  /\ UNCHANGED <<pending_permission, user_response, approved, elapsed,
                 enteredPending, polls,
                 heard>>

\* if self.active_threat:
RequestTarget(q) ==
  /\ pc[q] = "rp_target"
  /\ goto(q, IF active_threat # NoThreat THEN "rp_tlog" ELSE "rp_setpend")
  /\ rpFrame
  /\ UNCHANGED <<mission_logs, pending_permission, user_response, approved,
                 rp_result, rp_via, elapsed, enteredPending, polls,
                 heard>>

\* the "Target: ..." line reads self.active_threat again; on None the
\* subscript raises out of request_permission, handle_threat and run
RequestTargetLog(q) ==
  /\ pc[q] = "rp_tlog"
  /\ goto(q, IF active_threat = NoThreat THEN "q_dead" ELSE "rp_setpend")
  /\ rpFrame
  /\ UNCHANGED <<mission_logs, pending_permission, user_response, approved,
                 rp_result, rp_via, elapsed, enteredPending, polls,
                 heard>>

\* self.pending_permission = True
RequestSetPending(q) ==
  /\ pc[q] = "rp_setpend"
  /\ pending_permission' = TRUE
  /\ enteredPending' = [enteredPending EXCEPT ![q] = TRUE]
  /\ goto(q, "rp_clear")
  /\ rpFrame
  /\ UNCHANGED <<mission_logs, user_response, approved, rp_result, rp_via,
                 elapsed, polls,
                 heard>>

\* the start of the wait leaving the slot as it finds it
RequestClearResponseKeeps(q) ==
  /\ pc[q] = "rp_clear"
  /\ elapsed' = [elapsed EXCEPT ![q] = 0]
  /\ heard' = [heard EXCEPT ![q] = [wiped |-> user_response, fresh |-> None]]
  /\ goto(q, "rp_poll")
  /\ rpFrame
  /\ UNCHANGED <<mission_logs, pending_permission, user_response, approved,
                 rp_result, rp_via, enteredPending, polls>>

\* self.user_response = None; start = time.time()
RequestClearResponse(q) ==
  /\ pc[q] = "rp_clear"
  /\ user_response' = None
  /\ elapsed' = [elapsed EXCEPT ![q] = 0]
  /\ heard' = [heard EXCEPT ![q] = [wiped |-> user_response, fresh |-> None]]
  /\ goto(q, "rp_poll")
  /\ rpFrame
  /\ UNCHANGED <<mission_logs, pending_permission, approved, rp_result, rp_via,
                 enteredPending, polls>>

\* the loop leaving one tick early
timed_out_early(e) == ~(e + 1 < TimeoutTicks)

\* while time.time() - start < timeout
timed_out(e) == ~(e < TimeoutTicks)

\* a loop that looks at the mode again and returns True in jammer mode
RequestPollHonorsMode(q) ==
  /\ pc[q] = "rp_poll"
  /\ polls' = [polls EXCEPT ![q] = @ + 1]
  /\ IF queen_mode = "jammer"
     THEN /\ pending_permission' = FALSE
          /\ rp_result' = [rp_result EXCEPT ![q] = TRUE]
          /\ rp_via' = [rp_via EXCEPT ![q] = "jammer"]
          /\ goto(q, "ht_learn")
     ELSE /\ goto(q, IF user_response # None THEN "rp_read" ELSE "rp_sleep")
          /\ UNCHANGED <<pending_permission, rp_result, rp_via>>
  /\ rpFrame
  /\ UNCHANGED <<mission_logs, user_response, approved, elapsed,
                 enteredPending, heard>>

\* in the loop: if self.user_response is not None
RequestPoll(q) ==
  /\ pc[q] = "rp_poll"
  /\ polls' = [polls EXCEPT ![q] = @ + 1]
  /\ goto(q, IF user_response # None THEN "rp_read" ELSE "rp_sleep")
  /\ rpFrame
  /\ UNCHANGED <<mission_logs, pending_permission, user_response, approved,
                 rp_result, rp_via, elapsed, enteredPending,
                 heard>>

\* time.sleep(0.2), one tick, and the loop condition
RequestSleep(q) ==
  /\ pc[q] = "rp_sleep"
  /\ elapsed' = [elapsed EXCEPT ![q] = @ + 1]
  /\ goto(q, IF timed_out(elapsed[q] + 1) THEN "rp_tolog" ELSE "rp_poll")
  /\ rpFrame
  /\ UNCHANGED <<mission_logs, pending_permission, user_response, approved,
                 rp_result, rp_via, enteredPending, polls,
                 heard>>

\* approved = self.user_response (the second read of the slot)
RequestRead(q) ==
  /\ pc[q] = "rp_read"
  /\ approved' = [approved EXCEPT ![q] = user_response]
  /\ goto(q, "rp_unpend")
  /\ rpFrame
  /\ UNCHANGED <<mission_logs, pending_permission, user_response,
                 rp_result, rp_via, elapsed, enteredPending, polls,
                 heard>>

\* self.pending_permission = False
RequestUnpend(q) ==
  /\ pc[q] = "rp_unpend"
  /\ pending_permission' = FALSE
  /\ goto(q, "rp_unresp")
  /\ rpFrame
  /\ UNCHANGED <<mission_logs, user_response, approved, rp_result, rp_via,
                 elapsed, enteredPending, polls,
                 heard>>

\* self.user_response = None
RequestConsume(q) ==
  /\ pc[q] = "rp_unresp"
  /\ user_response' = None
  /\ goto(q, "rp_reslog")
  /\ rpFrame
  /\ UNCHANGED <<mission_logs, pending_permission, approved, rp_result, rp_via,
                 elapsed, enteredPending, polls,
                 heard>>

\* if approved: log AUTHORIZED, return True; else: log DENIED, return False
RequestResolve(q) ==
  /\ pc[q] = "rp_reslog"
  /\ mission_logs' = log_entry(mission_logs,
        IF Truthy(approved[q]) THEN AuthorizedEntry ELSE DeniedEntry)
  /\ rp_result' = [rp_result EXCEPT ![q] = Truthy(approved[q])]
  /\ rp_via' = [rp_via EXCEPT ![q] = "response"]
  /\ goto(q, "ht_learn")
  /\ rpFrame
  /\ UNCHANGED <<pending_permission, user_response, approved, elapsed,
                 enteredPending, polls,
                 heard>>

\* after the loop: the "TIMEOUT - AUTO-AUTH" line
RequestTimeoutLog(q) ==
  /\ pc[q] = "rp_tolog"
  /\ mission_logs' = log_entry(mission_logs, TimeoutEntry)
  /\ goto(q, "rp_tounpend")
  /\ rpFrame
  /\ UNCHANGED <<pending_permission, user_response, approved, rp_result,
                 rp_via, elapsed, enteredPending, polls,
                 heard>>

\* the timeout branch returning with the flag still up
RequestTimeoutKeepsPending(q) ==
  /\ pc[q] = "rp_tounpend"
  /\ rp_result' = [rp_result EXCEPT ![q] = TRUE]
  /\ rp_via' = [rp_via EXCEPT ![q] = "timeout"]
  /\ goto(q, "ht_learn")
  /\ rpFrame
  /\ UNCHANGED <<mission_logs, pending_permission, user_response, approved,
                 elapsed, enteredPending, polls, heard>>

\* self.pending_permission = False; return True
RequestTimeout(q) ==
  /\ pc[q] = "rp_tounpend"
  /\ pending_permission' = FALSE
  /\ rp_result' = [rp_result EXCEPT ![q] = TRUE]
  /\ rp_via' = [rp_via EXCEPT ![q] = "timeout"]
  /\ goto(q, "ht_learn")
  /\ rpFrame
  /\ UNCHANGED <<mission_logs, user_response, approved, elapsed,
                 enteredPending, polls,
                 heard>>

\* ------------------------------------------- datacenter.py: the operator
\* a web handler runs in its own thread; one approve/deny at a time here
opFrame == /\ UNCHANGED <<threats, active_threat, queen_mode, kamikaze_deployed,
                          kamikaze_target, threat_level>>
           /\ UNCHANGED <<queenVars, learnerVars, main_pc, kpc, ktarget, wpc>>
           /\ UNCHANGED <<enteredPending, polls>>

\* approve() / deny(): swarm.user_response = True / False
OperatorRespond(v) ==
  /\ op_pc = "idle"
  /\ budget > 0
  /\ user_response' = v
  /\ op_val' = v
  /\ op_pc' = "resp_unpend"
  /\ budget' = budget - 1
  /\ posted' = [q \in Queens |->
       IF Waiting(q) /\ pending_permission
       THEN Append(posted[q], [value |-> v, active |-> active_threat,
                               mode |-> queen_mode])
       ELSE posted[q]]
  /\ respDuring' = [q \in Queens |->
       IF InRequest(q) THEN respDuring[q] + 1 ELSE respDuring[q]]
  /\ heard' = [q \in Queens |->
       IF Listening(q) THEN [heard[q] EXCEPT !.fresh = v] ELSE heard[q]]
  /\ opFrame
  /\ UNCHANGED <<mission_logs, pending_permission>>

\* swarm.pending_permission = False
OperatorUnpend ==
  /\ op_pc = "resp_unpend"
  /\ pending_permission' = FALSE
  /\ op_pc' = "resp_log"
  /\ opFrame
  /\ UNCHANGED <<mission_logs, user_response, op_val, budget, posted,
                 respDuring, heard>>

\* swarm.log("USER", "AUTHORIZED" / "DENIED")
OperatorLog ==
  /\ op_pc = "resp_log"
  /\ mission_logs' = log_entry(mission_logs,
        IF Truthy(op_val) THEN AuthorizedEntry ELSE DeniedEntry)
  /\ op_pc' = "idle"
  /\ opFrame
  /\ UNCHANGED <<pending_permission, user_response, op_val, budget,
                 posted, respDuring, heard>>

\* spawn_threat(): swarm.add_threat(threat)
OperatorSpawn(d) ==
  /\ budget > 0
  /\ add_threat(d)
  /\ budget' = budget - 1
  /\ UNCHANGED <<queen_mode, kamikaze_deployed, kamikaze_target, pending_permission,
                 user_response>>
  /\ UNCHANGED <<queenVars, learnerVars, otherVars, histVars>>

\* the operating mode is the attribute swarm.queen_mode; none of the modelled
\* files writes it, the mode setting of the specification does, at any time
SetMode(m) ==
  /\ budget > 0
  /\ m # queen_mode
  /\ queen_mode' = m
  /\ budget' = budget - 1
  /\ UNCHANGED <<threats, active_threat, kamikaze_deployed, kamikaze_target,
                 mission_logs, threat_level, pending_permission, user_response>>
  /\ UNCHANGED <<queenVars, learnerVars, otherVars, histVars>>

\* ---------------------------------------------- main.py: reset_mission
\* stop_drone_threads() sets an event no drone thread reads and joins with a
\* timeout, so the running threads go on; then swarm.reset_mission()
ResetMission ==
  /\ main_pc = "idle"
  /\ budget > 0
  /\ \E q \in Queens : pc[q] = "off"
  /\ threats' = <<>>
  /\ active_threat' = NoThreat
  /\ kamikaze_deployed' = FALSE
  /\ kamikaze_target' = NoTarget
  /\ threat_level' = "GREEN"
  /\ pending_permission' = FALSE
  /\ user_response' = None
  /\ mission_logs' = log(mission_logs, "SYSTEM", <<"Mission - Ready">>, "WARNING")
  /\ main_pc' = "restart"
  /\ budget' = budget - 1
  /\ UNCHANGED <<queen_mode, queenVars, learnerVars, op_pc, op_val, kpc, ktarget,
                 wpc>>
  /\ UNCHANGED histVars

\* start_drone_threads(): a new Queen thread and a new Kamikaze1 thread
StartDroneThreads ==
  /\ main_pc = "restart"
  /\ \E q \in Queens : \E k \in Kamikazes :
       /\ pc[q] = "off" /\ kpc[k] = "off"
       /\ pc' = [pc EXCEPT ![q] = "q_construct"]
       /\ kpc' = [kpc EXCEPT ![k] = "k_wait"]
  /\ main_pc' = "idle"
  /\ UNCHANGED <<swarmVars, learnerVars, op_pc, op_val, ktarget, wpc>>
  /\ UNCHANGED <<t, ht_mode, auto_dec, pred, approved, rp_result, rp_via, elapsed>>
  /\ UNCHANGED <<inputVars, histVars>>

\* -------------------------------------------------- kamikaze.py: run
\* if swarm.kamikaze_deployed and swarm.kamikaze_target:
KamikazeCheck(k) ==
  /\ kpc[k] = "k_wait"
  /\ kamikaze_deployed /\ kamikaze_target # NoTarget
  /\ kpc' = [kpc EXCEPT ![k] = "k_strike"]
  /\ UNCHANGED <<swarmVars, queenVars, learnerVars, op_pc, op_val, main_pc, ktarget,
                 wpc>>
  /\ UNCHANGED <<inputVars, histVars>>

\* target = swarm.kamikaze_target; the move to it (float(target[0]) raises
\* on None and the except clause goes on)
KamikazeStrike(k) ==
  /\ kpc[k] = "k_strike"
  /\ ktarget' = [ktarget EXCEPT ![k] = kamikaze_target]
  /\ kpc' = [kpc EXCEPT ![k] = "k_reset"]
  /\ UNCHANGED swarmVars
  /\ UNCHANGED <<queenVars, learnerVars, op_pc, op_val, main_pc, wpc>>
  /\ UNCHANGED <<inputVars, histVars>>

\* swarm.kamikaze_deployed = False
KamikazeReset(k) ==
  /\ kpc[k] = "k_reset"
  /\ kamikaze_deployed' = FALSE
  /\ kpc' = [kpc EXCEPT ![k] = "k_reset2"]
  /\ UNCHANGED <<threats, active_threat, queen_mode, kamikaze_target,
                 mission_logs, threat_level, pending_permission, user_response>>
  /\ UNCHANGED <<queenVars, learnerVars, op_pc, op_val, main_pc, ktarget, wpc>>
  /\ UNCHANGED <<inputVars, histVars>>

\* swarm.kamikaze_target = None; break
KamikazeResetTarget(k) ==
  /\ kpc[k] = "k_reset2"
  /\ kamikaze_target' = NoTarget
  /\ kpc' = [kpc EXCEPT ![k] = "k_done"]
  /\ UNCHANGED <<threats, active_threat, queen_mode, kamikaze_deployed,
                 mission_logs, threat_level, pending_permission, user_response>>
  /\ UNCHANGED <<queenVars, learnerVars, op_pc, op_val, main_pc, ktarget, wpc>>
  /\ UNCHANGED <<inputVars, histVars>>

\* --------------------------------------------------- warriors.py: run
\* while not swarm.kamikaze_deployed: the flag is read once per round of the
\* patrol
WarriorCheck(w) ==
  /\ wpc[w] = "w_check"
  /\ wpc' = [wpc EXCEPT ![w] = IF kamikaze_deployed THEN "w_rtb" ELSE "w_patrol"]
  /\ UNCHANGED <<swarmVars, queenVars, learnerVars, inputVars, histVars>>
  /\ UNCHANGED <<op_pc, op_val, main_pc, kpc, ktarget>>

\* one round of the patrol: the waypoint, the move to it and three position
\* reports a second apart; the waypoint lines it writes to the mission log
\* are left out
WarriorPatrol(w) ==
  /\ wpc[w] = "w_patrol"
  /\ wpc' = [wpc EXCEPT ![w] = "w_check"]
  /\ UNCHANGED <<swarmVars, queenVars, learnerVars, inputVars, histVars>>
  /\ UNCHANGED <<op_pc, op_val, main_pc, kpc, ktarget>>

\* after the loop: the "RTB (hover)" line, then hover
WarriorReturn(w) ==
  /\ wpc[w] = "w_rtb"
  /\ mission_logs' = log(mission_logs, "WARRIOR", <<"RTB (hover)">>, "WARNING")
  /\ wpc' = [wpc EXCEPT ![w] = "w_done"]
  /\ UNCHANGED <<threats, active_threat, queen_mode, kamikaze_deployed,
                 kamikaze_target, threat_level, pending_permission, user_response>>
  /\ UNCHANGED <<queenVars, learnerVars, inputVars, histVars>>
  /\ UNCHANGED <<op_pc, op_val, main_pc, kpc, ktarget>>

\* ----------------------------------------- SwarmState called directly
\* add_threat(d) by a caller that is no thread of the mission, with whatever
\* dictionary it passes; the caller sees the exception, if one is raised
RegistrySubmit(d) ==
  /\ budget > 0
  /\ add_threat(d)
  /\ lcall' = [NoCall EXCEPT !.op = "submit", !.d = d,
                             !.failed = add_threat_raises(d)]
  /\ budget' = budget - 1
  /\ UNCHANGED <<queen_mode, kamikaze_deployed, kamikaze_target,
                 pending_permission, user_response>>
  /\ UNCHANGED <<queenVars, learner, model_file, env, otherVars, histVars>>

\* ------------------------------- AdaptiveThreatLearner called directly
\* the calls below are made on one instance, by a caller that is no Queen
\* thread: construction, learn_from_feedback, predict_threat_level, save_model
Instance == FirstQueen

learnerFrame ==
  /\ UNCHANGED <<swarmVars, otherVars, histVars, env>>
  /\ UNCHANGED <<pc, t, ht_mode, auto_dec, approved, rp_result, rp_via, elapsed>>

\* what the file holds of this run's saves after a call that left it as
\* `after`: the state L just written, what it held before, or nothing
saved_after(saved, L, before, after) ==
  IF after = model_data(L)
  THEN [written |-> TRUE, is_trained |-> L.is_trained,
        n |-> Len(L.experience_buffer)]
  ELSE IF after = before THEN saved ELSE NoSave

Carried == [NoCall EXCEPT !.saved = lcall.saved,
                          !.failed_before = lcall.failed_before \/ lcall.failed]

\* AdaptiveThreatLearner(model_path): a new instance on the same file
LearnerConstruct ==
  /\ ~learner[Instance].ok \/ budget > 0
  /\ learner' = [learner EXCEPT ![Instance] =
       load_model(FreshLearner(TRUE, env.sklearn_ok), model_file)]
  /\ lcall' = [NoCall EXCEPT !.op = "init", !.saved = lcall.saved]
  /\ budget' = IF learner[Instance].ok THEN budget - 1 ELSE budget
  /\ learnerFrame
  /\ UNCHANGED <<model_file, pred>>

\* learn_from_feedback(d, confirmed)
LearnerLearn(d, confirmed) ==
  /\ learner[Instance].ok /\ budget > 0
  /\ \E fit_ok \in (IF env.faults THEN BOOLEAN ELSE {TRUE}) :
       /\ Learn(Instance, d, confirmed, fit_ok)
       /\ lcall' = [Carried EXCEPT
            !.op = "learn", !.d = d, !.confirmed = confirmed, !.fit_ok = fit_ok,
            !.stamp = time_time(learner[Instance].experience_buffer),
            !.save_called = learn_saves(learner[Instance], fit_ok),
            !.saved = saved_after(lcall.saved, learner'[Instance],
                                  model_file, model_file')]
  /\ budget' = budget - 1
  /\ learnerFrame
  /\ UNCHANGED pred

\* predict_threat_level(d), the backend answering ml if it is asked
LearnerPredict(d, ml) ==
  /\ learner[Instance].ok /\ budget > 0
  /\ pred' = [pred EXCEPT ![Instance] =
       predict_threat_level(learner[Instance], d, ml)]
  /\ lcall' = [Carried EXCEPT
       !.op = "predict", !.d = d, !.ml = ml,
       !.failed = uses_model(learner[Instance]) /\ ml.fails]
  /\ budget' = budget - 1
  /\ learnerFrame
  /\ UNCHANGED <<learner, model_file>>

\* save_model()
LearnerSave ==
  /\ learner[Instance].ok /\ budget > 0
  /\ model_file' \in SaveStep(learner[Instance])
  /\ lcall' = [Carried EXCEPT
       !.op = "save", !.save_called = TRUE,
       !.saved = saved_after(lcall.saved, learner[Instance],
                             model_file, model_file')]
  /\ budget' = budget - 1
  /\ learnerFrame
  /\ UNCHANGED <<learner, pred>>

\* reset_model()
LearnerReset ==
  /\ learner[Instance].ok /\ budget > 0
  /\ learner' = [learner EXCEPT ![Instance] =
       reset_model(learner[Instance], env.sklearn_ok)]
  /\ lcall' = [Carried EXCEPT !.op = "reset"]
  /\ budget' = budget - 1
  /\ learnerFrame
  /\ UNCHANGED <<model_file, pred>>

\* _rule_based_assessment(d)
LearnerAssess(d) ==
  /\ learner[Instance].ok /\ budget > 0
  /\ pred' = [pred EXCEPT ![Instance] = rule_based_assessment(d)]
  /\ lcall' = [Carried EXCEPT !.op = "assess", !.d = d]
  /\ budget' = budget - 1
  /\ learnerFrame
  /\ UNCHANGED <<learner, model_file>>

\* autonomous_decision(d): the prediction and the threshold test on it
LearnerDecide(d) ==
  /\ learner[Instance].ok /\ budget > 0
  /\ \E ml \in (IF uses_model(learner[Instance]) THEN MLOutcomes ELSE {NoML}) :
       LET p == predict_threat_level(learner[Instance], d, ml)
       IN  /\ pred' = [pred EXCEPT ![Instance] = p]
           /\ auto_dec' = [auto_dec EXCEPT ![Instance] =
                IF autonomous_decision(p) THEN "True" ELSE "False"]
           /\ lcall' = [Carried EXCEPT !.op = "decide", !.d = d, !.ml = ml]
  /\ budget' = budget - 1
  /\ UNCHANGED <<swarmVars, otherVars, histVars, env>>
  /\ UNCHANGED <<pc, t, ht_mode, approved, rp_result, rp_via, elapsed>>
  /\ UNCHANGED <<learner, model_file>>

\* ------------------------------------------------------- specification
\* the model file the first Queen finds: none, or one saved by an earlier
\* run with a trained classifier
SavedExperience(i) == Experience(D2, 1, i)
SavedFile(n) ==
  [kind |-> "model", classifier_ok |-> TRUE, class_count |-> n,
   experience |-> [i \in 1..n |-> SavedExperience(i)], is_trained |-> TRUE,
   training_history |->
     [i \in 1..(IF n < HistoryKept THEN n ELSE HistoryKept) |-> HistoryRecord(D2, 1)]]
InitialFiles == {NoFile, SavedFile(MinExperiences)}

\* the state main() leaves before the threads run: the SwarmState singleton
\* as constructed, the first Queen and Kamikaze threads started
\* the n-th threat the operator spawned: spawn_threat() with its default type
\* and confidence at the position (n, n); n calls leave n registry entries,
\* the last one active, and the last LogCap of their THREAT lines in the log
Spawned(n) == Detection("person", 100, <<n, n>>)
StartAfter(n, files, envs, inputs, running) ==
  /\ threats = [i \in 1..n |-> Spawned(i)]
  /\ active_threat = (IF n = 0 THEN NoThreat ELSE Spawned(n))
  /\ queen_mode = "normal"
  /\ kamikaze_deployed = FALSE
  /\ kamikaze_target = NoTarget
  /\ mission_logs = LastN([i \in 1..n |-> ThreatEntry(Spawned(i))], LogCap)
  /\ threat_level = (IF n = 0 THEN "GREEN" ELSE "RED")
  /\ pending_permission = FALSE
  /\ user_response = None
  /\ pc = [q \in Queens |-> IF q \in running THEN "q_construct" ELSE "off"]
  /\ t = [q \in Queens |-> NoThreat]
  /\ ht_mode = [q \in Queens |-> "normal"]
  /\ auto_dec = [q \in Queens |-> "none"]
  /\ pred = [q \in Queens |-> Assessment(FALSE, 0)]
  /\ approved = [q \in Queens |-> None]
  /\ rp_result = [q \in Queens |-> FALSE]
  /\ rp_via = [q \in Queens |-> "none"]
  /\ elapsed = [q \in Queens |-> 0]
  /\ learner = [q \in Queens |-> FreshLearner(FALSE, FALSE)]
  /\ model_file \in files
  /\ env \in envs
  /\ lcall = NoCall
  /\ op_pc = "idle"
  /\ op_val = None
  /\ main_pc = "idle"
  /\ kpc = [k \in Kamikazes |-> IF k \in running THEN "k_wait" ELSE "off"]
  /\ ktarget = [k \in Kamikazes |-> NoTarget]
  /\ wpc = [w \in Warriors |-> IF w \in running THEN "w_check" ELSE "off"]
  /\ budget = inputs
  /\ posted = [q \in Queens |-> <<>>]
  /\ respDuring = [q \in Queens |-> 0]
  /\ enteredPending = [q \in Queens |-> FALSE]
  /\ polls = [q \in Queens |-> 0]
  /\ heard = [q \in Queens |-> NothingHeard]

StartWith(files, envs, inputs, running) ==
  StartAfter(0, files, envs, inputs, running)

Start(files, envs, inputs) ==
  StartWith(files, envs, inputs, {FirstQueen, FirstKamikaze})

Init ==
  Start(InitialFiles,
        [learner_ok : BOOLEAN, sklearn_ok : {TRUE}, faults : {FALSE}], MaxInputs)

InitReset ==
  Start({NoFile},
        [learner_ok : {TRUE}, sklearn_ok : {TRUE}, faults : {FALSE}], MaxResetInputs)

QueenStep(q) ==
  \/ QueenInit(q) \/ QueenMonitoring(q) \/ QueenLoop(q) \/ QueenCheck(q)
  \/ QueenTake(q) \/ QueenDetectNothing(q) \/ QueenDetect(q)
  \/ HandleThreatMode(q) \/ HandleThreatAuto(q) \/ HandleThreatLearn(q)
  \/ HandleThreatClear(q) \/ HandleThreatYellow(q)
  \/ QueenTarget(q) \/ QueenDeploy(q) \/ QueenComplete(q)

RequestStep(q) ==
  \/ RequestMode(q) \/ RequestTarget(q) \/ RequestTargetLog(q)
  \/ RequestSetPending(q) \/ RequestClearResponse(q) \/ RequestPoll(q)
  \/ RequestSleep(q) \/ RequestRead(q) \/ RequestUnpend(q) \/ RequestConsume(q)
  \/ RequestResolve(q) \/ RequestTimeoutLog(q) \/ RequestTimeout(q)

KamikazeStep(k) ==
  \/ KamikazeCheck(k) \/ KamikazeStrike(k) \/ KamikazeReset(k)
  \/ KamikazeResetTarget(k)

\* one mission: the threads main() starts and the operator
Next ==
  \/ \E q \in Queens : QueenStep(q) \/ RequestStep(q)
  \/ \E v \in Responses : OperatorRespond(v)
  \/ OperatorUnpend
  \/ OperatorLog
  \/ \E d \in Detections : OperatorSpawn(d)
  \/ \E m \in {"normal", "jammer"} : SetMode(m)
  \/ \E k \in Kamikazes : KamikazeStep(k)

Spec == Init /\ [][Next]_vars

\* one mission in which a Queen thread that can run does run: the thread is
\* never suspended for good and time.sleep returns
InitLive ==
  Start(InitialFiles,
        [learner_ok : BOOLEAN, sklearn_ok : {TRUE}, faults : {FALSE}], MaxLiveInputs)

SpecLive ==
  InitLive /\ [][Next]_vars
    /\ \A q \in Queens : WF_vars(QueenStep(q) \/ RequestStep(q))

\* one mission with the Warrior thread patrolling, every thread that can run
\* running: the Queen, the Kamikaze and the Warrior are never suspended for
\* good and their sleeps and moves return
WarriorStep(w) == WarriorCheck(w) \/ WarriorPatrol(w) \/ WarriorReturn(w)
InitWarrior ==
  StartWith({NoFile},
            [learner_ok : {TRUE}, sklearn_ok : {TRUE}, faults : {FALSE}],
            MaxLiveInputs, {FirstQueen, FirstKamikaze, FirstWarrior})
NextWarrior == Next \/ \E w \in Warriors : WarriorStep(w)
SpecWarrior ==
  InitWarrior /\ [][NextWarrior]_vars
    /\ \A q \in Queens : WF_vars(QueenStep(q) \/ RequestStep(q))
    /\ \A k \in Kamikazes : WF_vars(KamikazeStep(k))
    /\ \A w \in Warriors : WF_vars(WarriorStep(w))

\* the learner alone, in an environment in which partial_fit and the write
\* of the file can fail: no thread is started; the model file is any a run
\* can have left, one with more experiences than the buffer takes, an
\* unreadable one or a malformed one (a file with a GaussianNB object only
\* where scikit-learn is installed)
MalformedFile ==
  [SavedFile(MinExperiences) EXCEPT !.kind = "malformed", !.experience = <<>>]
LearnerFiles ==
  {NoFile, CorruptFile, MalformedFile, SavedFile(MinExperiences - 1),
   SavedFile(MinExperiences), SavedFile(BufferCap - 1), SavedFile(BufferCap),
   SavedFile(BufferCap + 1)}
InitLearner ==
  /\ StartWith(LearnerFiles,
               [learner_ok : {TRUE}, sklearn_ok : BOOLEAN, faults : {TRUE}],
               MaxLearnerCalls, {})
  /\ env.sklearn_ok \/ model_file \in {NoFile, CorruptFile}

NextLearner ==
  \/ LearnerConstruct
  \/ \E d \in Detections : \E confirmed \in BOOLEAN : LearnerLearn(d, confirmed)
  \/ \E d \in Detections : \E ml \in MLOutcomes : LearnerPredict(d, ml)
  \/ LearnerSave
  \/ LearnerReset

SpecLearner == InitLearner /\ [][NextLearner]_vars

\* the rule-based assessor alone, on detections of every class of the
\* feature encoding, with confidences at and around the min_conf values
AssessClasses == {"person", "car", "truck", "bus", "motorcycle", "bicycle"}
AssessConfidences == {64, 65, 69, 70, 74, 75, 80, 99}
AssessDetections ==
  {Detection(c, k, <<0, 0>>) : c \in AssessClasses, k \in AssessConfidences}
InitRules ==
  StartWith({NoFile},
            [learner_ok : {TRUE}, sklearn_ok : BOOLEAN, faults : {FALSE}],
            MaxLearnerCalls, {})

NextRules ==
  \/ LearnerConstruct
  \/ \E d \in AssessDetections : LearnerAssess(d)

SpecRules == InitRules /\ [][NextRules]_vars

\* the autonomous decision of a learner that is not using its model (no file,
\* a file with fewer than MinExperiences experiences, or no scikit-learn), on
\* detections of every class at every confidence from 0.00 to 1.00
DecideConfidences == 0..100
DecideDetections ==
  {Detection(c, k, <<0, 0>>) : c \in AssessClasses, k \in DecideConfidences}
InitDecide ==
  /\ StartWith({NoFile, SavedFile(MinExperiences - 1)},
               [learner_ok : {TRUE}, sklearn_ok : BOOLEAN, faults : {FALSE}],
               MaxLearnerCalls, {})
  /\ env.sklearn_ok \/ model_file = NoFile
NextDecide ==
  \/ LearnerConstruct
  \/ \E d \in DecideDetections : LearnerDecide(d)
SpecDecide == InitDecide /\ [][NextDecide]_vars

\* the registry alone, no thread started: submits of complete detections and
\* of dictionaries that lack the class or the position
NoClass == [confidence |-> 80, world_pos |-> <<20, 20>>]
NoPosition == [class |-> "car", confidence |-> 80]
SubmitDetections == Detections \cup {NoClass, NoPosition}
InitSubmit ==
  StartWith({NoFile},
            [learner_ok : {TRUE}, sklearn_ok : {TRUE}, faults : {FALSE}],
            MaxSubmitCalls, {})
NextSubmit == \E d \in SubmitDetections : RegistrySubmit(d)
SpecSubmit == InitSubmit /\ [][NextSubmit]_vars

\* the same with mission resets
NextReset == Next \/ ResetMission \/ StartDroneThreads

SpecReset == InitReset /\ [][NextReset]_vars

\* missions the operator answers, switches and resets but spawns no threat
\* into: an answer and a reset can both fall into one request
InitAbort ==
  Start({NoFile},
        [learner_ok : {TRUE}, sklearn_ok : {TRUE}, faults : {FALSE}], MaxAbortInputs)
NextAbort ==
  \/ \E q \in Queens : QueenStep(q) \/ RequestStep(q)
  \/ \E v \in Responses : OperatorRespond(v)
  \/ OperatorUnpend
  \/ OperatorLog
  \/ \E m \in {"normal", "jammer"} : SetMode(m)
  \/ \E k \in Kamikazes : KamikazeStep(k)
  \/ ResetMission
  \/ StartDroneThreads
SpecAbort == InitAbort /\ [][NextAbort]_vars

\* one mission late in a long run of the process: the operator has spawned
\* SpawnedBefore threats already, as many as fill the registry to the edge of
\* 200 entries or the mission log to its cap
SpawnedBefore == {200, LogCap}
InitLong ==
  \E n \in SpawnedBefore :
    StartAfter(n, {NoFile},
               [learner_ok : {TRUE}, sklearn_ok : {TRUE}, faults : {FALSE}],
               MaxLongInputs, {FirstQueen, FirstKamikaze})
SpecLong == InitLong /\ [][Next]_vars

\* ===================================================== properties
\* request_permission has returned to handle_threat
Returned(q) == pc[q] = "ht_learn"

HasEntry(source, message) ==
  \E i \in 1..Len(mission_logs) :
    mission_logs[i].source = source /\ mission_logs[i].message = message

\* C1: a response posted while the request is pending is consumed and is
\* the value request_permission returns; a deny posted then makes it
\* return false.
C1_PostedResponseIsReturned ==
  \A q \in Queens :
    (Returned(q) /\ posted[q] # <<>>) =>
      rp_result[q] = Truthy(posted[q][1].value)

\* C2: a request that went pending and met no response returns true by
\* timeout and not by the branch that logs an operator entry, after no
\* fewer than TimeoutTicks ticks, and the log holds the SYSTEM timeout entry.
C2_TimeoutFailOpen ==
  \A q \in Queens :
    (Returned(q) /\ enteredPending[q] /\ respDuring[q] = 0) =>
      /\ rp_result[q] /\ rp_via[q] = "timeout"
      /\ elapsed[q] >= TimeoutTicks
      /\ HasEntry("SYSTEM", <<"TIMEOUT - AUTO-AUTH">>)

C2_Witness ==
  \E q \in Queens :
    /\ Returned(q) /\ enteredPending[q] /\ respDuring[q] = 0
    /\ rp_via[q] = "timeout" /\ elapsed[q] = TimeoutTicks

\* C3: request_permission called in jammer mode returns true in that very
\* step: the pending flag is not written and no poll or sleep is made.
C3_JammerImmediate ==
  [][\A q \in Queens :
       (pc[q] = "rp_mode" /\ queen_mode = "jammer" /\ pc'[q] # pc[q]) =>
         /\ pc'[q] = "ht_learn" /\ rp_result'[q]
         /\ pending_permission' = pending_permission
         /\ ~enteredPending'[q] /\ polls'[q] = 0 /\ elapsed'[q] = 0]_vars

C3_Witness ==
  \E q \in Queens :
    /\ Returned(q) /\ rp_via[q] = "jammer" /\ rp_result[q]
    /\ ~enteredPending[q] /\ polls[q] = 0

\* C4: autonomous_decision answers true exactly when the prediction is a
\* threat with confidence strictly above 0.80 (8000 on the grid of 1/10000).
C4_ThresholdStrict ==
  \A q \in Queens :
    auto_dec[q] # "none" =>
      (auto_dec[q] = "True" <=> (pred[q].is_threat /\ pred[q].confidence > 8000))

C4_Witness ==
  \E q \in Queens :
    auto_dec[q] = "False" /\ pred[q].is_threat /\ pred[q].confidence = 8000

\* C5: a strike authorized by handle_threat in jammer mode was authorized
\* by autonomous_decision answering true.
C5_AutonomousOnlyByClassifier ==
  \A q \in Queens :
    (pc[q] = "q_target" /\ ht_mode[q] = "jammer") => auto_dec[q] = "True"

\* a submit step: add_threat(d) appends d to the registry
Submit(d) == threats' = Append(threats, d)

\* the registry entries other than the active one, newest first
PingLog(registry) ==
  [i \in 1..(Len(registry) - 1) |-> registry[Len(registry) - i]]

\* C6: a submit of a detection of lower confidence than the ActiveThreat
\* leaves the ActiveThreat as it is, and turns threat_level to YELLOW only
\* from GREEN.
C6_LowerKeepsActive ==
  [][\A d \in Detections :
       (Submit(d) /\ active_threat # NoThreat
          /\ active_threat.confidence > d.confidence) =>
         /\ active_threat' = active_threat
         /\ threat_level' = (IF threat_level = "GREEN" THEN "YELLOW"
                             ELSE threat_level)]_vars

\* C7: a submit with no ActiveThreat, or of a detection of confidence not
\* below the ActiveThreat's, makes the detection the ActiveThreat, puts the
\* previous one at the head of the PingLog and sets threat_level to RED.
C7_PromoteOnHigherOrEqual ==
  [][\A d \in Detections :
       (Submit(d) /\ (active_threat = NoThreat
                        \/ d.confidence >= active_threat.confidence)) =>
         /\ active_threat' = d
         /\ threat_level' = "RED"
         /\ active_threat # NoThreat =>
              (PingLog(threats') # <<>> /\ PingLog(threats')[1] = active_threat)]_vars

C7_Witness ==
  /\ threats = <<D1, D2>> /\ active_threat = D2
  /\ PingLog(threats) = <<D1>> /\ threat_level = "RED"

C9_OneRequestInFlight == Cardinality({q \in Queens : InRequest(q)}) <= 1

\* C10: after an approval the target written for the strike is the position
\* of the ActiveThreat that was current when the approval was posted.
C10_TargetIsApprovedActive ==
  \A q \in Queens :
    (pc[q] = "q_deploy" /\ rp_via[q] = "response" /\ rp_result[q]
       /\ posted[q] # <<>> /\ posted[q][1].value = "True") =>
      kamikaze_target = posted[q][1].active.world_pos

\* no request is pending: the flag is down and no call is in progress
Idle == ~pending_permission /\ \A q \in Queens : ~InRequest(q)

\* C11: an operator response posted while no request is pending changes
\* nothing: the response slot and the pending flag stay as they are.
C11_IdleResponseNoOp ==
  [][\A v \in Responses :
       (Idle /\ op_pc = "idle" /\ op_pc' = "resp_unpend" /\ op_val' = v) =>
         /\ user_response' = user_response
         /\ pending_permission' = pending_permission]_vars

\* C12: a call that returns by a response returns a value written to the
\* slot after its own clearing write, whatever the slot held before; a call
\* that met none returns by its own timeout.
C12_NoStaleResponse ==
  \A q \in Queens :
    (Returned(q) /\ enteredPending[q]) =>
      IF heard[q].fresh # None
      THEN rp_via[q] = "timeout" \/ rp_result[q] = Truthy(heard[q].fresh)
      ELSE rp_via[q] = "timeout" /\ elapsed[q] >= TimeoutTicks

C12_Witness ==
  \E q \in Queens :
    /\ Returned(q) /\ rp_via[q] = "response"
    /\ heard[q].wiped = "True" /\ heard[q].fresh = "False" /\ ~rp_result[q]

DenialHandled(q) ==
  /\ pc[q] = "ht_yellow" /\ rp_via[q] = "response" /\ ~rp_result[q]
  /\ pc'[q] = "q_loop"
Dispatched(q) ==
  /\ pc[q] = "q_deploy" /\ rp_via[q] = "response" /\ rp_result[q]
  /\ pc'[q] = "q_complete"

\* C14: when handle_threat has dealt with a denial, and when the strike has
\* been dispatched after an approval, the registry is clear: no ActiveThreat,
\* no other entry, threat_level YELLOW.
C14_RegistryClearedAfterResolution ==
  [][\A q \in Queens :
       (DenialHandled(q) \/ Dispatched(q)) =>
         /\ active_threat' = NoThreat
         /\ threats' = <<>>
         /\ threat_level' = "YELLOW"]_vars

\* a call of the named method has just been made on the instance
Called(op) == budget' = budget - 1 /\ lcall'.op = op

\* C15: a learn_from_feedback call whose partial_fit fails leaves the
\* learner as it was: experience buffer, trained flag, training history.
C15_FailedUpdateChangesNothing ==
  [][(Called("learn") /\ ~lcall'.fit_ok) =>
       /\ learner'[Instance].experience_buffer = learner[Instance].experience_buffer
       /\ learner'[Instance].is_trained = learner[Instance].is_trained
       /\ learner'[Instance].training_history = learner[Instance].training_history]_vars

C17_FailedLoadIsFresh ==
  (lcall.op = "init" /\ model_file.kind # "model") =>
    /\ ~learner[Instance].is_trained
    /\ learner[Instance].experience_buffer = <<>>
    /\ learner[Instance].training_history = <<>>
    /\ learner[Instance].class_count = 0

\* C18: the experience buffer holds at most BufferCap entries, and they are
\* the most recently inserted ones in the order of their insertion: the
\* stamps are consecutive, the newest is that of the last insertion, and
\* none but the oldest are missing.
C18_BufferIsRecentFifo ==
  LET buf == learner[Instance].experience_buffer
      Min(a, b) == IF a < b THEN a ELSE b
  IN  /\ Len(buf) <= BufferCap
      /\ \A i \in 1..(Len(buf) - 1) : buf[i + 1].timestamp = buf[i].timestamp + 1
      /\ buf # <<>> => Len(buf) = Min(BufferCap, buf[Len(buf)].timestamp)
      /\ (lcall.op = "learn" /\ learner[Instance].classifier_ok) =>
            buf # <<>> /\ buf[Len(buf)].timestamp = lcall.stamp

C18_Witness ==
  LET buf == learner[Instance].experience_buffer
  IN  /\ lcall.op = "learn" /\ Len(buf) = BufferCap
      /\ buf[1].timestamp = 2 /\ buf[BufferCap].timestamp = BufferCap + 1

\* the answer of the backend as predict_threat_level returns it
Answer(ml) == Assessment(ml.is_threat, ml.confidence)

\* C19: predict_threat_level returns the model's answer exactly when the
\* learner is trained, holds at least 5 experiences and has a backend (and
\* the backend answers); otherwise it returns the rule-based assessment.
C19_ModelOnlyWhenEligible ==
  LET L == learner[Instance]
      eligible == /\ L.is_trained /\ Len(L.experience_buffer) >= 5
                  /\ L.classifier_ok
  IN  lcall.op = "predict" =>
        pred[Instance] = IF eligible /\ ~lcall.ml.fails THEN Answer(lcall.ml)
                         ELSE rule_based_assessment(lcall.d)

C19_Witness ==
  /\ lcall.op = "predict" /\ ~lcall.ml.fails
  /\ learner[Instance].is_trained
  /\ Len(learner[Instance].experience_buffer) = 5
  /\ pred[Instance] = Answer(lcall.ml)
  /\ pred[Instance] # rule_based_assessment(lcall.d)

\* C20: a predict_threat_level call in which the backend raises returns
\* the rule-based assessment and changes nothing in the learner or the
\* file, so that the learner is still one whose next call asks the model.
C20_BackendFailureFallsBack ==
  [][(Called("predict") /\ lcall'.failed) =>
       /\ pred'[Instance] = rule_based_assessment(lcall'.d)
       /\ learner' = learner /\ model_file' = model_file
       /\ uses_model(learner'[Instance])]_vars

C20_Witness ==
  /\ lcall.op = "predict" /\ lcall.failed_before /\ ~lcall.ml.fails
  /\ uses_model(learner[Instance])
  /\ pred[Instance] = Answer(lcall.ml)

\* C21: the rule-based assessment is decided by the first pattern, in the
\* order of the table, whose classes hold the detection's class and whose
\* min_conf is not above its confidence: (true, confidence * priority); with
\* no such pattern it is (false, confidence * 0.4).  A person at 0.70 gives
\* (true, 0.595), a bicycle at 0.99 gives (false, 0.396).
C21_FirstMatchingPatternDecides ==
  LET d == lcall.d
      matching == {i \in 1..Len(threat_patterns) :
                     /\ d.class \in threat_patterns[i].classes
                     /\ threat_patterns[i].min_conf <= d.confidence}
  IN  lcall.op = "assess" =>
        /\ matching = {} => pred[Instance] = Assessment(FALSE, d.confidence * 40)
        /\ \A i \in matching :
             (\A j \in matching : i <= j) =>
               pred[Instance] =
                 Assessment(TRUE, d.confidence * threat_patterns[i].priority)
        /\ (d.class = "person" /\ d.confidence = 70) =>
             pred[Instance] = Assessment(TRUE, 5950)
        /\ (d.class = "bicycle" /\ d.confidence = 99) =>
             pred[Instance] = Assessment(FALSE, 3960)

C21_Witness ==
  /\ lcall.op = "assess" /\ lcall.d.class = "truck" /\ lcall.d.confidence = 80
  /\ pred[Instance] = Assessment(TRUE, 6400)

\* C22: a learn_from_feedback call whose update succeeds calls save_model
\* exactly when the example it learned is the k-th accumulated one for a
\* multiple k of 5, a full buffer included.
C22_SaveOnEveryFifth ==
  [][(Called("learn") /\ lcall'.fit_ok /\ learner[Instance].classifier_ok) =>
       (lcall'.save_called <=> lcall'.stamp % 5 = 0)]_vars

\* C23: after reset_model the experience buffer and the training history are
\* empty and the learner is not trained, and predict_threat_level answers
\* what the rule-based assessment answers, on the pattern table as it was.
C23_ResetClearsLearner ==
  lcall.op = "reset" =>
    /\ learner[Instance].experience_buffer = <<>>
    /\ learner[Instance].training_history = <<>>
    /\ ~learner[Instance].is_trained
    /\ \A d \in AssessDetections : \A ml \in MLOutcomes :
         predict_threat_level(learner[Instance], d, ml) = rule_based_assessment(d)

C23_Witness ==
  /\ lcall.op = "reset" /\ budget = MaxLearnerCalls - 1
  /\ model_file = SavedFile(BufferCap)
  /\ learner[Instance] = FreshLearner(TRUE, TRUE)

\* the registry and authorization attributes of SwarmState, and the steps
\* that write any of them inside a `with lock` block: add_threat (from the
\* perception branch and from spawn_threat), the clearing of the registry
\* in handle_threat, SwarmState.reset_mission
SharedState ==
  <<active_threat, threats, threat_level, pending_permission, user_response>>
UnderLock ==
  \/ \E q \in Queens : QueenDetect(q) \/ HandleThreatClear(q)
  \/ \E d \in Detections : OperatorSpawn(d)
  \/ ResetMission

\* C24: every step that writes the active threat, the threat list,
\* threat_level, the pending flag or the response slot is made under the
\* lock.
C24_WritesUnderLock ==
  [][SharedState' # SharedState => UnderLock]_vars

\* the entries logged since the last "REQUESTING AUTHORIZATION" line
RequestEntry == Entry("QUEEN", <<"REQUESTING AUTHORIZATION">>, "WARNING")
SinceRequest ==
  LET at == {i \in 1..Len(mission_logs) : mission_logs[i] = RequestEntry}
  IN  IF at = {} THEN <<>>
      ELSE LET last == CHOOSE i \in at : \A j \in at : j <= i
           IN  SubSeq(mission_logs, last + 1, Len(mission_logs))
Logged(entries, e) == \E i \in 1..Len(entries) : entries[i] = e
OutcomeEntry(v) == IF Truthy(v) THEN AuthorizedEntry ELSE DeniedEntry

\* the one response written during the call was posted while the request
\* was pending, and its handler has run to its end
AnsweredByOperator(q) ==
  Len(posted[q]) = 1 /\ respDuring[q] = 1 /\ op_pc = "idle"

\* C25: a request that returned by timeout has the timeout entry and no
\* operator entry of a response posted to it; a request that returned by a
\* response has the entry of that outcome and no timeout entry.
C25_LogTellsTimeoutFromOperator ==
  \A q \in Queens :
    (Returned(q) /\ enteredPending[q]) =>
      /\ rp_via[q] = "timeout" =>
           /\ Logged(SinceRequest, TimeoutEntry)
           /\ ~(/\ AnsweredByOperator(q)
                 /\ Logged(SinceRequest, OutcomeEntry(posted[q][1].value)))
      /\ rp_via[q] = "response" =>
           /\ ~Logged(SinceRequest, TimeoutEntry)
           /\ Logged(SinceRequest, OutcomeEntry(approved[q]))

\* C26: every authorization decision of handle_threat feeds the learner: the
\* step that decides a threat (authorize or hold in autonomous mode; approve,
\* deny or timeout in supervised mode) makes one learn_from_feedback call
\* whose label is the decision, 1 for authorized and 0 for not authorized.
\* A call on a learner with a classifier is seen by the example it buffers.
Decides(q) ==
  /\ pc[q] \in {"ht_auto", "ht_learn"}
  /\ pc'[q] \in {"q_target", "ht_clear"}
LearnedWith(q, label) ==
  LET before == learner[q].experience_buffer
      after == learner'[q].experience_buffer
  IN  /\ after # before
      /\ after = deque_append(before, Experience(t[q], label, time_time(before)))
C26_EveryDecisionIsLearned ==
  [][\A q \in Queens :
       (Decides(q) /\ learner[q].ok /\ learner[q].classifier_ok) =>
         LearnedWith(q, IF pc'[q] = "q_target" THEN 1 ELSE 0)]_vars

\* C27: the PingLog, the registry entries other than the ActiveThreat taken
\* newest first, never holds more than 200 entries, whatever the sequence of
\* submits.
C27_PingLogBounded ==
  [][(\E d \in Detections : Submit(d)) => Len(PingLog(threats')) <= 200]_vars

\* C28: the mission log never holds more than LogCap entries, and every
\* change of it, by whichever thread, is one log() call: the new entry is
\* appended at the tail and, when the log was full, the oldest entry is gone.
LogAppended ==
  LET e == mission_logs'[Len(mission_logs')]
  IN  /\ mission_logs' # <<>>
      /\ mission_logs' = (IF Len(mission_logs) < LogCap
                          THEN Append(mission_logs, e)
                          ELSE Append(Tail(mission_logs), e))
C28_MissionLogBounded ==
  [][/\ Len(mission_logs) <= LogCap
     /\ Len(mission_logs') <= LogCap
     /\ mission_logs' # mission_logs => LogAppended]_vars

\* a full log that has taken two more entries from two threads, the Queen's
\* request line and the operator's answer, and lost its two oldest entries
C28_Witness ==
  /\ Len(mission_logs) = LogCap
  /\ mission_logs[1] = ThreatEntry(Spawned(3))
  /\ Logged(SinceRequest, AuthorizedEntry)

PastModeRead(q) == InRequest(q) /\ pc[q] # "rp_mode"
Call(q) == <<pc[q], elapsed[q], approved[q], rp_result[q], rp_via[q],
             pending_permission, user_response>>
C30_ResolvesByResponseOrTimeout ==
  [][\A q \in Queens :
       /\ (PastModeRead(q) /\ queen_mode' # queen_mode) => Call(q)' = Call(q)
       /\ (PastModeRead(q) /\ enteredPending[q] /\ pc'[q] = "ht_learn") =>
            \/ /\ pc[q] = "rp_reslog"
               /\ rp_via'[q] = "response"
               /\ rp_result'[q] = Truthy(approved[q])
            \/ /\ pc[q] = "rp_tounpend"
               /\ rp_via'[q] = "timeout"
               /\ rp_result'[q] = TRUE]_vars

\* the operator's denial, posted when the request was pending and the mode
\* already autonomous, is what the call returned
C30_Witness ==
  \E q \in Queens :
    /\ Returned(q) /\ enteredPending[q]
    /\ posted[q] # <<>> /\ posted[q][1].mode = "jammer"
    /\ rp_via[q] = "response" /\ ~rp_result[q]
    /\ queen_mode = "jammer"

\* C31: a learn_from_feedback call whose partial_fit succeeds appends one
\* experience labelled 1 for a confirmed threat and 0 otherwise, fits the
\* classifier on one more example and leaves the learner trained; a learner
\* whose classifier has been fitted on no example is not trained.
NeverFitted(L) == L.class_count = 0
C31_SuccessfulLearnTrains ==
  [][/\ (Called("learn") /\ lcall'.fit_ok /\ learner[Instance].classifier_ok) =>
          /\ learner'[Instance].experience_buffer =
               deque_append(learner[Instance].experience_buffer,
                 Experience(lcall'.d, IF lcall'.confirmed THEN 1 ELSE 0,
                            lcall'.stamp))
          /\ learner'[Instance].class_count = learner[Instance].class_count + 1
          /\ learner'[Instance].is_trained
     /\ NeverFitted(learner[Instance]) => ~learner[Instance].is_trained
     /\ NeverFitted(learner'[Instance]) => ~learner'[Instance].is_trained]_vars

\* a fresh learner that has learned one dismissed detection
C31_Witness ==
  /\ lcall.op = "learn" /\ lcall.fit_ok /\ ~lcall.confirmed
  /\ learner[Instance].class_count = 1
  /\ learner[Instance].is_trained
  /\ learner[Instance].experience_buffer =
       <<Experience(lcall.d, 0, lcall.stamp)>>

\* C32: a learner without a classifier works by the rules alone: a
\* learn_from_feedback call leaves the experience buffer, the trained flag
\* and the training history as they were, and predict_threat_level answers
\* what the rule-based assessment answers, whatever calls came before.
RuleOnly(L) == L.ok /\ ~L.classifier_ok
C32_NoBackendIsRuleOnly ==
  [][RuleOnly(learner[Instance]) =>
       /\ Called("learn") =>
            /\ learner'[Instance].experience_buffer =
                 learner[Instance].experience_buffer
            /\ learner'[Instance].is_trained = learner[Instance].is_trained
            /\ learner'[Instance].training_history =
                 learner[Instance].training_history
       /\ Called("predict") =>
            pred'[Instance] = rule_based_assessment(lcall'.d)]_vars

\* the last call of a run on a learner without a classifier was a
\* prediction, answered by the rules with a threat
C32_Witness ==
  /\ RuleOnly(learner[Instance])
  /\ lcall.op = "predict" /\ budget = 0
  /\ pred[Instance] = rule_based_assessment(lcall.d)
  /\ pred[Instance].is_threat

\* C33: request_permission returns False only for a request the operator
\* denied: the last response posted while the call was listening was a deny.
C33_FalseOnlyOnDeny ==
  \A q \in Queens :
    (Returned(q) /\ ~rp_result[q]) => heard[q].fresh = "False"

\* C34: whenever there is an ActiveThreat the threat_level is RED.
C34_ActiveThreatIsRed ==
  active_threat # NoThreat => threat_level = "RED"

\* C35: the pending flag is true exactly while a request_permission call
\* waits for a response: it is up while a call that raised it is in its loop
\* with no response in the slot to consume, and it is down when no call is
\* between raising it and consuming a response or timing out.
AwaitsResponse(q) == pc[q] \in {"rp_poll", "rp_sleep"} /\ user_response = None
HoldsRequest(q) ==
  pc[q] \in {"rp_clear", "rp_poll", "rp_sleep", "rp_read", "rp_unpend",
             "rp_tolog", "rp_tounpend"}
C35_PendingExactlyWhileWaiting ==
  /\ \A q \in Queens : AwaitsResponse(q) => pending_permission
  /\ pending_permission => \E q \in Queens : HoldsRequest(q)

\* C36: kamikaze_deployed becomes true only in the step of a Queen for which
\* handle_threat has returned True, with kamikaze_target already holding the
\* position of that threat, and a Kamikaze that finds the flag up strikes at
\* a target that is set.
Authorized(q) == pc[q] = "q_deploy" /\ t[q] # NoThreat
C36_DispatchAfterAuthorization ==
  [][/\ (~kamikaze_deployed /\ kamikaze_deployed') =>
          \E q \in Queens :
            /\ Authorized(q) /\ pc'[q] = "q_complete"
            /\ kamikaze_target = t[q].world_pos
     /\ \A k \in Kamikazes :
          (kpc[k] = "k_strike" /\ kpc'[k] = "k_reset") => ktarget'[k] # NoTarget]_vars

\* C37: a learner that is not using its model never authorizes a car, a
\* truck or a bus on its own, at any confidence from 0 to 1: the rule-based
\* score of such a detection is at most 0.80, which is not above the
\* threshold.
Vehicles == {"car", "truck", "bus"}
C37_RuleOnlyNeverAuthorizesVehicle ==
  (lcall.op = "decide" /\ ~uses_model(learner[Instance])
     /\ lcall.d.class \in Vehicles) =>
    /\ auto_dec[Instance] = "False"
    /\ pred[Instance].confidence <= 8000

\* a truck at confidence 1.00 scores 0.80 as a threat and is held
C37_Witness ==
  /\ lcall.op = "decide" /\ ~uses_model(learner[Instance])
  /\ lcall.d.class = "truck" /\ lcall.d.confidence = 100
  /\ pred[Instance] = Assessment(TRUE, 8000)
  /\ auto_dec[Instance] = "False"

\* C38: once kamikaze_deployed is true, a Warrior that is patrolling
\* eventually sees the flag and leaves its patrol loop.
Patrolling(w) == wpc[w] \in {"w_check", "w_patrol"}
C38_WarriorEventuallyStops ==
  \A w \in Warriors :
    (kamikaze_deployed /\ Patrolling(w)) ~> ~Patrolling(w)

\* C39: a submit of a detection that lacks its class or its position raises
\* an error to the caller and leaves the threat list, the ActiveThreat and
\* the threat_level as they were before the call.
Malformed(d) == ~("class" \in DOMAIN d) \/ ~("world_pos" \in DOMAIN d)
C39_MalformedSubmitRejected ==
  [][(lcall'.op = "submit" /\ budget' = budget - 1 /\ Malformed(lcall'.d)) =>
       /\ lcall'.failed
       /\ threats' = threats
       /\ active_threat' = active_threat
       /\ threat_level' = threat_level]_vars
====
